---- MODULE Spec2Model ----
(***************************************************************************)
(* Model of the API gateway of task_manager_microservices:                 *)
(*   api_gateway/app/core/config.py   Settings                             *)
(*   api_gateway/app/core/proxy.py    ServiceProxy and the global `proxy`   *)
(*   api_gateway/app/main.py          the HTTP handlers                     *)
(*                                                                         *)
(* Strings are TLA+ strings; Len, SubSeq and \o act on them as Python's    *)
(* len, slicing and + do.  A handler is cut into steps at its awaits: the  *)
(* code between two awaits runs without interleaving on the event loop.    *)
(***************************************************************************)
EXTENDS Integers, Sequences, FiniteSets, TLC

(***************************************************************************)
(* Bounds of the model.                                                    *)
(***************************************************************************)
\* largest value MAX_RETRIES is configured to (0..MaxRetriesCfg are explored)
MaxRetriesCfg == 3

\* the requests in progress at one time: two clients, each sending its next
\* request when it has the response to the one before
Reqs == {"a", "b"}

(***************************************************************************)
(* Python values.                                                          *)
(***************************************************************************)
\* Python's None where a string is expected (no URL or path has this form)
None == "<None>"

\* str.startswith
StartsWith(s, p) == Len(p) <= Len(s) /\ SubSeq(s, 1, Len(p)) = p

\* s[n:]
SliceFrom(s, n) == SubSeq(s, n + 1, Len(s))

RECURSIVE rstrip_slash(_)
\* str.rstrip('/')
rstrip_slash(s) ==
    IF Len(s) > 0 /\ SubSeq(s, Len(s), Len(s)) = "/"
    THEN rstrip_slash(SubSeq(s, 1, Len(s) - 1))
    ELSE s

\* `not x` for x a string or None
Falsy(x) == x = None \/ x = ""

(***************************************************************************)
(* config.py                                                               *)
(***************************************************************************)
auth_service_url == "http://auth_service:8000"
task_service_url == "http://task_service:8000"
notification_service_url == "http://notification_service:8000"

\* Settings.service_routes: a dict, iterated in insertion order
SettingsRoutes(auth_url, task_url, notif_url) ==
    << [name |-> "auth", url |-> auth_url, prefix |-> "/auth"],
       [name |-> "tasks", url |-> task_url, prefix |-> "/api/v1/tasks"],
       [name |-> "notifications", url |-> notif_url,
        prefix |-> "/api/v1/notifications"] >>

DefaultRoutes ==
    SettingsRoutes(auth_service_url, task_service_url, notification_service_url)

(***************************************************************************)
(* proxy.py: pure parts of ServiceProxy                                    *)
(***************************************************************************)
RECURSIVE route_scan_no_slash(_, _, _)
\* route_scan with a fault: the remainder is returned as it is
route_scan_no_slash(routes, i, path) ==
    IF i > Len(routes)
    THEN << None, None >>
    ELSE IF StartsWith(path, routes[i].prefix)
         THEN << routes[i].url, SliceFrom(path, Len(routes[i].prefix)) >>
         ELSE route_scan_no_slash(routes, i + 1, path)

RECURSIVE route_scan(_, _, _)
\* the for loop of get_service_url, from the i-th entry of the dict on
route_scan(routes, i, path) ==
    IF i > Len(routes)
    THEN << None, None >>
    ELSE LET prefix == routes[i].prefix IN
         IF StartsWith(path, prefix)
         THEN LET cleaned_path == SliceFrom(path, Len(prefix)) IN
              << routes[i].url,
                 IF ~StartsWith(cleaned_path, "/")
                 THEN "/" \o cleaned_path
                 ELSE cleaned_path >>
         ELSE route_scan(routes, i + 1, path)

\* get_service_url with a fault: the longest matching prefix wins
get_service_url_longest(routes, path) ==
    LET matching == {i \in 1..Len(routes) : StartsWith(path, routes[i].prefix)}
        longest == CHOOSE i \in matching : \A j \in matching :
                       Len(routes[j].prefix) <= Len(routes[i].prefix)
    IN  IF matching = {} THEN << None, None >>
        ELSE route_scan(routes, longest, path)

\* ServiceProxy.get_service_url: (service_url, cleaned_path) or (None, None)
get_service_url(routes, path) == route_scan(routes, 1, path)

\* outbound_url with a fault: the base URL keeps its trailing slashes
outbound_url_no_rstrip(svc, cleaned_path, query) ==
    LET u == svc \o cleaned_path IN
    IF query # "" THEN u \o "?" \o query ELSE u

\* forward_request, "Prepare request details": the outbound URL
outbound_url(svc, cleaned_path, query) ==
    LET u == rstrip_slash(svc) \o cleaned_path IN
    IF query # "" THEN u \o "?" \o query ELSE u

\* route_request with a fault: the test `if not service_url` is missing
route_request_unchecked(routes, path, query) ==
    LET target == get_service_url(routes, path) IN
    [service_url |-> target[1], cleaned_path |-> target[2], status |-> 0,
     url |-> outbound_url(target[1], target[2], query)]

\* forward_request from "Determine target service" to the outbound URL:
\* status 404 stands for the HTTPException raised when no service is found
route_request(routes, path, query) ==
    LET target == get_service_url(routes, path) IN
    IF Falsy(target[1])
    THEN [service_url |-> target[1], cleaned_path |-> target[2],
          status |-> 404, url |-> None]
    ELSE [service_url |-> target[1], cleaned_path |-> target[2],
          status |-> 0, url |-> outbound_url(target[1], target[2], query)]

(***************************************************************************)
(* What an upstream does with one outbound call, and the inbound requests  *)
(* the model explores.                                                     *)
(***************************************************************************)
UpResponse(code, content) ==
    [kind |-> "response", status |-> code, content |-> content]

\* "timeout": httpx.TimeoutException, "connect": httpx.ConnectError,
\* "other": any other exception raised by the call
UpFailure(kind) == [kind |-> kind, status |-> 0, content |-> ""]

NoCall == [kind |-> "none", status |-> 0, content |-> ""]

\* The upstream of a forwarded request is described by what it does with
\* the first, second, ... call it gets (the last entry repeats).
Upstreams ==
    { << UpResponse(200, "ok") >>,
      << UpResponse(500, "boom") >>,
      << UpFailure("timeout") >>,
      << UpFailure("connect") >>,
      << UpFailure("other") >>,
      << UpFailure("timeout"), UpFailure("connect") >>,
      << UpFailure("connect"), UpResponse(200, "ok") >> }

\* The upstreams of a /health request: what the i-th service of the route
\* table does with its health call.
HealthUpstreams ==
    { << UpResponse(200, "ok"), UpResponse(200, "ok"), UpResponse(200, "ok") >>,
      << UpResponse(200, "ok"), UpFailure("connect"), UpResponse(200, "ok") >>,
      << UpResponse(500, "boom"), UpFailure("timeout"), UpFailure("other") >> }

\* what an upstream described by ups does with the n-th call
up_at(ups, n) == IF n <= Len(ups) THEN ups[n] ELSE ups[Len(ups)]

\* the header lines and the address of the client of the requests tried
RequestHeaders ==
    << << "Host", "gateway" >>, << "Authorization", "Bearer t" >> >>

RequestClient == "10.0.0.1"

Req(method, path, query, content) ==
    [method |-> method, path |-> path, query |-> query, content |-> content,
     headers |-> RequestHeaders, client |-> RequestClient]

NoRequest ==
    [method |-> "", path |-> "", query |-> "", content |-> "",
     headers |-> << >>, client |-> None]

Requests ==
    { Req("POST", "/auth/login", "", "cred"),
      Req("GET", "/nowhere", "", ""),
      Req("GET", "/api/v1/task", "", ""),
      Req("GET", "/health", "", ""),
      Req("POST", "/health", "", ""),
      Req("GET", "/ping", "", ""),
      Req("DELETE", "/routes", "", ""),
      Req("HEAD", "/docs", "", "") }

(***************************************************************************)
(* Headers.  A dict is a sequence of << key, value >> pairs with distinct  *)
(* keys (Python compares keys case-sensitively and keeps insertion         *)
(* order).  request.headers and response.headers are multi-dicts whose     *)
(* names are lower-cased.                                                  *)
(***************************************************************************)
UpperLetters == "ABCDEFGHIJKLMNOPQRSTUVWXYZ"

LowerLetters == "abcdefghijklmnopqrstuvwxyz"

\* str.lower on one character
lower_char(c) ==
    IF \E i \in 1..Len(UpperLetters) : SubSeq(UpperLetters, i, i) = c
    THEN LET i == CHOOSE i \in 1..Len(UpperLetters) :
                      SubSeq(UpperLetters, i, i) = c
         IN  SubSeq(LowerLetters, i, i)
    ELSE c

RECURSIVE lower(_)
\* str.lower
lower(s) ==
    IF s = "" THEN ""
    ELSE lower_char(SubSeq(s, 1, 1)) \o lower(SubSeq(s, 2, Len(s)))

\* the keys of a dict or multi-dict, in order
dict_keys(d) == [i \in 1..Len(d) |-> d[i][1]]

\* key in d
dict_has(d, k) == \E i \in 1..Len(d) : d[i][1] = k

\* d.get(k, default): the value of the first entry with key k
dict_get(d, k, default) ==
    IF dict_has(d, k)
    THEN d[CHOOSE i \in 1..Len(d) :
               d[i][1] = k /\ \A j \in 1..(i - 1) : d[j][1] # k][2]
    ELSE default

\* d[k] = v: the entry is replaced where it stands, a new key is appended
dict_set(d, k, v) ==
    IF dict_has(d, k)
    THEN [i \in 1..Len(d) |-> IF d[i][1] = k THEN << k, v >> ELSE d[i]]
    ELSE Append(d, << k, v >>)

\* `for header in names: d.pop(header, None)`
dict_pop_all(d, names) ==
    LET kept(e) == e[1] \notin names IN SelectSeq(d, kept)

\* the header list as the gateway receives it: names are lower-cased
\* (request.headers of the ASGI server, response.headers of httpx)
lower_names(raw) == [i \in 1..Len(raw) |-> << lower(raw[i][1]), raw[i][2] >>]

RECURSIVE first_values(_, _)
\* dict(request.headers): keys() lists every name, [] gives the first value
first_values(h, i) ==
    IF i > Len(h) THEN << >>
    ELSE LET rest == first_values(h, i + 1)
             k == h[i][1]
         IN  IF \E j \in 1..(i - 1) : h[j][1] = k
             THEN rest
             ELSE << << k, dict_get(h, k, None) >> >> \o rest

\* hop_by_hop_headers with a fault: 'host' is not removed
hop_by_hop_headers_without_host ==
    { "connection", "keep-alive", "proxy-authenticate", "proxy-authorization",
      "te", "trailers", "transfer-encoding", "upgrade" }

\* prepare_headers: hop_by_hop_headers
hop_by_hop_headers ==
    { "connection", "keep-alive", "proxy-authenticate", "proxy-authorization",
      "te", "trailers", "transfer-encoding", "upgrade", "host" }

\* settings.service_version
service_version == "1.0.0"

\* `request.client.host if request.client else 'unknown'`
client_ip(client) == IF client = None THEN "unknown" ELSE client

\* ServiceProxy.prepare_headers; raw is the header list the client sent
prepare_headers(raw, client) ==
    LET h0 == first_values(lower_names(raw), 1)
        h1 == dict_pop_all(h0, hop_by_hop_headers)
        h2 == dict_set(h1, "X-Forwarded-By", "API-Gateway")
        h3 == dict_set(h2, "X-Gateway-Version", service_version)
        h4 == dict_set(h3, "X-Forwarded-For",
                       dict_get(h3, "X-Forwarded-For", client_ip(client)))
    IN  dict_set(h4, "X-Real-IP", client_ip(client))

(***************************************************************************)
(* State.                                                                  *)
(***************************************************************************)
VARIABLES
    max_retries,     \* settings.max_retries
    service_routes,  \* proxy.service_routes
    client_closed,   \* proxy.client has been closed (aclose was called)
    pc,              \* per request: where its handler stands
    request,         \* per request: the inbound request
    upstream,        \* per request: what its upstream(s) do with its calls
    service_url,     \* forward_request: local service_url
    url,             \* forward_request: local url
    fwd_headers,     \* forward_request: local headers
    body,            \* forward_request: local body
    attempt,         \* forward_request: loop variable attempt
    flight,          \* what the upstream does with the call in flight
    tries,           \* per request: the calls made so far, in order
    health_status,   \* health_check: local health_status
    response,        \* per request: the response given to the client
    arg,             \* route resolution on its own: path and query
    result,          \* route resolution on its own: what it yields
    inbound,         \* headers on their own: the inbound request
    headers,         \* headers on their own: prepare_headers' dict
    reply,           \* headers on their own: an upstream's response
    response_headers, \* headers on their own: forward_request's dict
    http_request,    \* logging middleware: the request it is called with
    call_next,       \* logging middleware: what the rest of the app does
    middleware_pc,   \* logging middleware: where it stands
    log,             \* logging middleware: the lines logger.info has emitted
    connection_pool_limits, \* settings.connection_pool_limits
    connection,      \* connection pool: per outbound call, where it stands
    processed_notifications, \* notification service main.py: the global list
    manager_notifications,   \* NotificationManager.processed_notifications
    clock            \* notification service: the records created so far

vars ==
    << max_retries, service_routes, client_closed, pc, request, upstream,
       service_url, url, fwd_headers, body, attempt, flight, tries,
       health_status, response, arg, result, inbound, headers, reply,
       response_headers, http_request, call_next, middleware_pc, log,
       connection_pool_limits, connection, processed_notifications,
       manager_notifications, clock >>

\* the variables of the gateway's handlers
gateway ==
    << max_retries, service_routes, client_closed, pc, request, upstream,
       service_url, url, fwd_headers, body, attempt, flight, tries,
       health_status, response >>

\* the variables of the logging middleware on its own
logging == << http_request, call_next, middleware_pc, log >>

\* the variables of the connection pool on its own
connections == << connection_pool_limits, connection >>

\* the variables of the notification service
notifications == << processed_notifications, manager_notifications, clock >>

\* the variables of the parts that are looked at on their own, apart from
\* route resolution and the headers
aside == << logging, connections, notifications >>

\* the variables of the header transformations on their own
sanitizer == << inbound, headers, reply, response_headers >>

\* the variables the gateway's handlers leave alone: those of route
\* resolution on its own, the sanitizer's, and the parts apart
resolver == << arg, result, sanitizer, aside >>

\* a dict that has not been built yet
Unset == << << None, None >> >>

NoInbound == [headers |-> Unset, client |-> None]

NoReply == [headers |-> Unset, service |-> None]

\* nothing is given to the header transformations, nothing comes out
SanitizerIdle ==
    /\ inbound = NoInbound
    /\ headers = Unset
    /\ reply = NoReply
    /\ response_headers = Unset

NoHttpRequest == [method |-> "", path |-> "", client |-> None]

\* no request is given to the logging middleware
LoggingIdle ==
    /\ http_request = NoHttpRequest
    /\ call_next = "none"
    /\ middleware_pc = "idle"
    /\ log = << >>

\* the connection pool is not looked at
PoolIdle ==
    /\ connection_pool_limits = 0
    /\ connection = << >>

\* the notification service is not looked at
NotificationsIdle ==
    /\ processed_notifications = << >>
    /\ manager_notifications = << >>
    /\ clock = 0

AsideIdle == LoggingIdle /\ PoolIdle /\ NotificationsIdle

NoArg == [path |-> None, query |-> None]

NoResult ==
    [service_url |-> None, cleaned_path |-> None, status |-> 0, url |-> None]

\* status is the HTTP status of the answer; type, status_code, message,
\* path, timestamp and gateway are the keys of the "error" object of its JSON
\* body ("" or 0 when the body has none)
NoResponse ==
    [status |-> 0, type |-> "none", status_code |-> 0, message |-> "",
     path |-> "", timestamp |-> "", gateway |-> "", content |-> "",
     service |-> ""]

NoHealth ==
    [gateway |-> "none", downstream_services |-> << >>, overall_status |-> "none"]

\* the gateway after start-up, no request received yet
Idle ==
    /\ client_closed = FALSE
    /\ pc = [r \in Reqs |-> "idle"]
    /\ request = [r \in Reqs |-> NoRequest]
    /\ upstream = [r \in Reqs |-> << >>]
    /\ service_url = [r \in Reqs |-> None]
    /\ url = [r \in Reqs |-> None]
    /\ fwd_headers = [r \in Reqs |-> Unset]
    /\ body = [r \in Reqs |-> None]
    /\ attempt = [r \in Reqs |-> 0]
    /\ flight = [r \in Reqs |-> NoCall]
    /\ tries = [r \in Reqs |-> << >>]
    /\ health_status = [r \in Reqs |-> NoHealth]
    /\ response = [r \in Reqs |-> NoResponse]

Init ==
    /\ max_retries \in 0..MaxRetriesCfg
    /\ service_routes = DefaultRoutes
    /\ Idle
    /\ arg = NoArg
    /\ result = NoResult
    /\ SanitizerIdle
    /\ AsideIdle

(***************************************************************************)
(* main.py: responses                                                      *)
(***************************************************************************)
\* http_exception_handler with a fault: error.status_code is always 500
http_exception_handler_fixed_code(req, status_code, detail) ==
    [status |-> status_code, type |-> "gateway_error", status_code |-> 500,
     message |-> detail, path |-> req.path, timestamp |-> "time.time()",
     gateway |-> "task_manager_api_gateway", content |-> "", service |-> ""]

\* main.py http_exception_handler: the JSONResponse of an HTTPException
http_exception_handler(req, status_code, detail) ==
    [status |-> status_code, type |-> "gateway_error",
     status_code |-> status_code, message |-> detail, path |-> req.path,
     timestamp |-> "time.time()", gateway |-> "task_manager_api_gateway",
     content |-> "", service |-> ""]

\* forward_request, the Response built from the upstream's response
upstream_response(up, svc) ==
    [status |-> up.status, type |-> "upstream", status_code |-> 0,
     message |-> "", path |-> "", timestamp |-> "", gateway |-> "",
     content |-> up.content, service |-> svc]

\* a JSON answer of the gateway's own handlers (/, /routes, /ping, /health)
local_response(kind) ==
    [status |-> 200, type |-> kind, status_code |-> 0, message |-> "",
     path |-> "", timestamp |-> "", gateway |-> "", content |-> "",
     service |-> ""]

\* the GET routes declared before the catch-all, /health apart
LocalGetPaths == {"/", "/routes", "/ping"}

\* the documentation routes FastAPI adds (Starlette routes: GET and HEAD)
DocPaths == {"/docs", "/redoc", "/openapi.json"}

\* gateway_endpoints with a fault: "/health" is missing
gateway_endpoints_without_health ==
    {"/", "/routes", "/ping", "/docs", "/redoc", "/openapi.json"}

\* proxy_request: gateway_endpoints
gateway_endpoints ==
    {"/", "/health", "/routes", "/ping", "/docs", "/redoc", "/openapi.json"}

\* methods of the catch-all route
ProxyMethods == {"GET", "POST", "PUT", "PATCH", "DELETE", "HEAD", "OPTIONS"}

\* the request reaches proxy_request (no earlier route matches it fully)
ToCatchAll(req) ==
    /\ req.method \in ProxyMethods
    /\ ~(req.method = "GET" /\ req.path \in LocalGetPaths \cup {"/health"})
    /\ ~(req.method \in {"GET", "HEAD"} /\ req.path \in DocPaths)

(***************************************************************************)
(* Leaving a handler.                                                      *)
(***************************************************************************)
\* the handler of r ends with the response resp
Answer(r, resp) ==
    /\ response' = [response EXCEPT ![r] = resp]
    /\ pc' = [pc EXCEPT ![r] = "done"]
    /\ flight' = [flight EXCEPT ![r] = NoCall]

\* ServiceProxy.__aexit__: leaving `async with proxy` closes proxy.client
aexit == client_closed' = TRUE

\* an HTTPException raised inside `async with proxy`
RaiseInProxy(r, status_code, detail) ==
    /\ aexit
    /\ Answer(r, http_exception_handler(request[r], status_code, detail))

(***************************************************************************)
(* main.py: a request arrives                                              *)
(***************************************************************************)
\* root, get_routes, ping and the documentation routes: answered locally
ReceiveLocal(r, req) ==
    /\ pc[r] = "idle"
    /\ \/ req.method = "GET" /\ req.path \in LocalGetPaths \cup DocPaths
       \/ req.method = "HEAD" /\ req.path \in DocPaths
    /\ request' = [request EXCEPT ![r] = req]
    /\ Answer(r, local_response("local"))
    /\ UNCHANGED << resolver, fwd_headers, max_retries, service_routes, client_closed, upstream,
                    service_url, url, body, attempt, tries, health_status >>

\* proxy_request on a gateway endpoint: 404 before `async with proxy`
ReceiveReserved(r, req) ==
    /\ pc[r] = "idle"
    /\ ToCatchAll(req)
    /\ req.path \in gateway_endpoints
    /\ request' = [request EXCEPT ![r] = req]
    /\ Answer(r, http_exception_handler(req, 404, "Endpoint not found"))
    /\ UNCHANGED << resolver, fwd_headers, max_retries, service_routes, client_closed, upstream,
                    service_url, url, body, attempt, tries, health_status >>

\* proxy_request -> forward_request, up to `await request.body()`
ReceiveProxy(r, req, ups) ==
    /\ pc[r] = "idle"
    /\ ToCatchAll(req)
    /\ req.path \notin gateway_endpoints
    /\ request' = [request EXCEPT ![r] = req]
    /\ LET routed == route_request(service_routes, req.path, req.query) IN
       IF routed.status = 404
       THEN /\ aexit
            /\ Answer(r, http_exception_handler(req, 404,
                          "No service found for path: " \o req.path))
            /\ UNCHANGED << upstream, service_url, url, fwd_headers >>
       ELSE /\ upstream' = [upstream EXCEPT ![r] = ups]
            /\ service_url' = [service_url EXCEPT ![r] = routed.service_url]
            /\ url' = [url EXCEPT ![r] = routed.url]
            /\ fwd_headers' = [fwd_headers EXCEPT ![r] =
                                  prepare_headers(req.headers, req.client)]
            /\ pc' = [pc EXCEPT ![r] = "body"]
            /\ UNCHANGED << client_closed, response, flight >>
    /\ UNCHANGED << resolver, max_retries, service_routes, body, attempt, tries,
                    health_status >>

\* the reading of the body with a fault: a failed read aborts the request
ReadBody_aborts(r, ok) ==
    /\ pc[r] = "body"
    /\ IF ok
       THEN /\ body' = [body EXCEPT ![r] = request[r].content]
            /\ pc' = [pc EXCEPT ![r] = "loop"]
            /\ UNCHANGED << client_closed, flight, response >>
       ELSE /\ RaiseInProxy(r, 500, "Gateway error occurred")
            /\ UNCHANGED body
    /\ UNCHANGED << resolver, fwd_headers, max_retries, service_routes,
                    request, upstream, service_url, url, attempt, tries,
                    health_status >>

\* forward_request: `body = await request.body()`, b'' when the read fails
ReadBody(r, ok) ==
    /\ pc[r] = "body"
    /\ body' = [body EXCEPT ![r] = IF ok THEN request[r].content ELSE ""]
    /\ pc' = [pc EXCEPT ![r] = "loop"]
    /\ UNCHANGED << resolver, fwd_headers, max_retries, service_routes, client_closed, request,
                    upstream, service_url, url, attempt, flight, tries,
                    health_status, response >>

(***************************************************************************)
(* proxy.py: the retry loop of forward_request                             *)
(***************************************************************************)
\* in_range with a fault: one iteration too many
in_range_one_more(att, maxr) == att < maxr + 1

\* `for attempt in range(settings.max_retries)`: the loop has an iteration
in_range(att, maxr) == att < maxr

\* is_last_attempt with a fault: compares with max_retries
is_last_attempt_off_by_one(att, maxr) == att = maxr

\* is_last_attempt with a fault: the first failure is the last attempt
is_last_attempt_first_failure(att, maxr) == TRUE

\* `if attempt == settings.max_retries - 1`
is_last_attempt(att, maxr) == att = maxr - 1

\* is_returned with a fault: a 5xx response is raised as an error and retried
is_returned_unless_5xx(up, got) == got = "response" /\ up.status < 500

\* the try body: whatever response client.request returns is returned
\* (there is no raise_for_status); an exception leaves the try body
is_returned(up, got) == got = "response"

\* failure_status with a fault: a timeout is reported as 503
failure_status_timeout_503(kind) ==
    CASE kind = "timeout" -> 503
      [] kind = "connect" -> 503
      [] OTHER -> 500

\* the status code of the except clause that catches an exception of a kind
failure_status(kind) ==
    CASE kind = "timeout" -> 504
      [] kind = "connect" -> 503
      [] OTHER -> 500

\* the detail of the HTTPException of that except clause
failure_detail(kind, svc) ==
    CASE kind = "timeout" -> "Service timeout: " \o svc
      [] kind = "connect" -> "Service unavailable: " \o svc
      [] OTHER -> "Gateway error occurred"

\* what a call of proxy.client can end in, given what the upstream does:
\* closing the client while the call is in flight may abort the call
\* ("aborted", an exception no except clause but the last one catches)
call_results(up, closed) ==
    {up.kind} \cup (IF closed THEN {"aborted"} ELSE {})

\* the arguments of client.request with a fault: the body is passed to the
\* first call only
outbound_request_body_once(r) ==
    [method |-> request[r].method, url |-> url[r], headers |-> fwd_headers[r],
     content |-> IF attempt[r] = 0 THEN body[r] ELSE ""]

\* `self.client.request(method=method, url=url, headers=headers,
\* content=body)`: the arguments of the call of this iteration
outbound_request(r) ==
    [method |-> request[r].method, url |-> url[r], headers |-> fwd_headers[r],
     content |-> body[r]]

\* the except clauses with a fault: the call that failed is not given up
\* before the next iteration
ExceptClause_keeps_call(r, kind) ==
    IF is_last_attempt(attempt[r], max_retries)
    THEN /\ RaiseInProxy(r, failure_status(kind),
                         failure_detail(kind, service_url[r]))
         /\ UNCHANGED attempt
    ELSE /\ attempt' = [attempt EXCEPT ![r] = @ + 1]
         /\ pc' = [pc EXCEPT ![r] = "loop"]
         /\ flight' = [flight EXCEPT ![r] =
                           up_at(upstream[r], Len(tries[r]) + 1)]
         /\ UNCHANGED << client_closed, response >>

\* the except clauses with a fault: the error raised in the end is that of
\* the first failure
ExceptClause_first_kind(r, kind) ==
    LET first == IF tries[r] = << >> THEN kind ELSE tries[r][1].got IN
    IF is_last_attempt(attempt[r], max_retries)
    THEN /\ RaiseInProxy(r, failure_status(first),
                         failure_detail(first, service_url[r]))
         /\ UNCHANGED attempt
    ELSE /\ attempt' = [attempt EXCEPT ![r] = @ + 1]
         /\ pc' = [pc EXCEPT ![r] = "loop"]
         /\ flight' = [flight EXCEPT ![r] = NoCall]
         /\ UNCHANGED << client_closed, response >>

\* one of the three except clauses, entered with an exception of a kind
ExceptClause(r, kind) ==
    IF is_last_attempt(attempt[r], max_retries)
    THEN /\ RaiseInProxy(r, failure_status(kind),
                         failure_detail(kind, service_url[r]))
         /\ UNCHANGED attempt
    ELSE /\ attempt' = [attempt EXCEPT ![r] = @ + 1]
         /\ pc' = [pc EXCEPT ![r] = "loop"]
         /\ flight' = [flight EXCEPT ![r] = NoCall]
         /\ UNCHANGED << client_closed, response >>

\* `await self.client.request(...)` is called.  A closed client raises
\* RuntimeError at once and sends nothing ("closed"); tries records what
\* the upstream would have done with the call.
Call(r) ==
    /\ pc[r] = "loop"
    /\ in_range(attempt[r], max_retries)
    /\ LET up == up_at(upstream[r], Len(tries[r]) + 1) IN
       IF client_closed
       THEN /\ tries' = [tries EXCEPT ![r] =
                            Append(@, [up |-> up, got |-> "closed",
                                       sent |-> outbound_request(r)])]
            /\ ExceptClause(r, "closed")
       ELSE /\ flight' = [flight EXCEPT ![r] = up]
            /\ pc' = [pc EXCEPT ![r] = "flight"]
            /\ UNCHANGED << client_closed, attempt, tries, response >>
    /\ UNCHANGED << resolver, fwd_headers, max_retries, service_routes, request, upstream,
                    service_url, url, body, health_status >>

\* the call in flight ends: a response is returned, an exception is handled
Return(r, got) ==
    /\ pc[r] = "flight"
    /\ got \in call_results(flight[r], client_closed)
    /\ tries' = [tries EXCEPT ![r] =
                    Append(@, [up |-> flight[r], got |-> got,
                               sent |-> outbound_request(r)])]
    /\ IF is_returned(flight[r], got)
       THEN /\ aexit
            /\ Answer(r, upstream_response(flight[r], service_url[r]))
            /\ UNCHANGED attempt
       ELSE ExceptClause(r, got)
    /\ UNCHANGED << resolver, fwd_headers, max_retries, service_routes, request, upstream,
                    service_url, url, body, health_status >>

\* the loop ends without a return or a raise: "Should not reach here"
FallThrough(r) ==
    /\ pc[r] = "loop"
    /\ ~in_range(attempt[r], max_retries)
    /\ RaiseInProxy(r, 500, "Request forwarding failed")
    /\ UNCHANGED << resolver, fwd_headers, max_retries, service_routes, request, upstream,
                    service_url, url, body, attempt, tries, health_status >>

\* the client has its response; the slot takes the next request
Deliver(r) ==
    /\ pc[r] = "done"
    /\ pc' = [pc EXCEPT ![r] = "idle"]
    /\ request' = [request EXCEPT ![r] = NoRequest]
    /\ upstream' = [upstream EXCEPT ![r] = << >>]
    /\ service_url' = [service_url EXCEPT ![r] = None]
    /\ url' = [url EXCEPT ![r] = None]
    /\ fwd_headers' = [fwd_headers EXCEPT ![r] = Unset]
    /\ body' = [body EXCEPT ![r] = None]
    /\ attempt' = [attempt EXCEPT ![r] = 0]
    /\ tries' = [tries EXCEPT ![r] = << >>]
    /\ health_status' = [health_status EXCEPT ![r] = NoHealth]
    /\ response' = [response EXCEPT ![r] = NoResponse]
    /\ UNCHANGED << resolver, max_retries, service_routes, client_closed, flight >>

(***************************************************************************)
(* main.py health_check and proxy.py health_check_service                  *)
(***************************************************************************)
\* str(e) of the exception a call ends with
exception_message(got) ==
    CASE got = "closed"  -> "Cannot send a request, as the client has been closed."
      [] got = "connect" -> "All connection attempts failed"
      [] got = "timeout" -> ""
      [] OTHER           -> got

\* health_check_service with a fault: every answer counts as healthy
health_record_any_answer(svc, up, got) ==
    IF got = "response"
    THEN [url |-> svc, status |-> "healthy",
          status_code |-> up.status, error |-> None]
    ELSE [url |-> svc, status |-> "unhealthy", status_code |-> 0,
          error |-> exception_message(got)]

\* the dict health_check_service returns (absent keys are None)
health_record(svc, up, got) ==
    IF got = "response"
    THEN [url |-> svc,
          status |-> IF up.status = 200 THEN "healthy" ELSE "unhealthy",
          status_code |-> up.status, error |-> None]
    ELSE [url |-> svc, status |-> "unhealthy", status_code |-> 0,
          error |-> exception_message(got)]

\* the for loop of health_check with a fault: an unhealthy service marks
\* the gateway itself
health_store_marks_gateway(hs, name, rec) ==
    [gateway |-> IF rec.status # "healthy" THEN "degraded" ELSE hs.gateway,
     downstream_services |->
         Append(hs.downstream_services, [name |-> name, record |-> rec]),
     overall_status |->
         IF rec.status # "healthy" THEN "degraded" ELSE hs.overall_status]

\* the body of the for loop of health_check after the await
health_store(hs, name, rec) ==
    [gateway |-> hs.gateway,
     downstream_services |->
         Append(hs.downstream_services, [name |-> name, record |-> rec]),
     overall_status |->
         IF rec.status # "healthy" THEN "degraded" ELSE hs.overall_status]

\* `self.client.get(f"{service_url}/health", timeout=10)`
health_request(svc) ==
    [method |-> "GET", url |-> svc \o "/health", headers |-> << >>,
     content |-> ""]

\* the route the for loop of health_check is at
health_route(r) ==
    service_routes[Len(health_status[r].downstream_services) + 1]

\* GET /health: health_check up to the for loop
HealthStart(r, req, ups) ==
    /\ pc[r] = "idle"
    /\ req.method = "GET" /\ req.path = "/health"
    /\ request' = [request EXCEPT ![r] = req]
    /\ upstream' = [upstream EXCEPT ![r] = ups]
    /\ health_status' = [health_status EXCEPT ![r] =
           [gateway |-> "healthy", downstream_services |-> << >>,
            overall_status |-> "healthy"]]
    /\ pc' = [pc EXCEPT ![r] = "hloop"]
    /\ UNCHANGED << resolver, fwd_headers, max_retries, service_routes, client_closed, service_url,
                    url, body, attempt, flight, tries, response >>

\* health_check_service calls `await self.client.get(...)`
HealthCall(r) ==
    /\ pc[r] = "hloop"
    /\ Len(health_status[r].downstream_services) < Len(service_routes)
    /\ LET up == up_at(upstream[r], Len(tries[r]) + 1) IN
       IF client_closed
       THEN /\ tries' = [tries EXCEPT ![r] =
                            Append(@, [up |-> up, got |-> "closed",
                                       sent |-> health_request(
                                                    health_route(r).url)])]
            /\ health_status' = [health_status EXCEPT ![r] =
                   health_store(@, health_route(r).name,
                       health_record(health_route(r).url, up, "closed"))]
            /\ UNCHANGED << pc, flight >>
       ELSE /\ flight' = [flight EXCEPT ![r] = up]
            /\ pc' = [pc EXCEPT ![r] = "hflight"]
            /\ UNCHANGED << tries, health_status >>
    /\ UNCHANGED << resolver, fwd_headers, max_retries, service_routes, client_closed, request,
                    upstream, service_url, url, body, attempt, response >>

\* the call of health_check_service in flight ends
HealthReturn(r, got) ==
    /\ pc[r] = "hflight"
    /\ got \in call_results(flight[r], client_closed)
    /\ tries' = [tries EXCEPT ![r] =
                    Append(@, [up |-> flight[r], got |-> got,
                               sent |-> health_request(health_route(r).url)])]
    /\ health_status' = [health_status EXCEPT ![r] =
           health_store(@, health_route(r).name,
               health_record(health_route(r).url, flight[r], got))]
    /\ flight' = [flight EXCEPT ![r] = NoCall]
    /\ pc' = [pc EXCEPT ![r] = "hloop"]
    /\ UNCHANGED << resolver, fwd_headers, max_retries, service_routes, client_closed, request,
                    upstream, service_url, url, body, attempt, response >>

\* the for loop is over: `async with proxy` is left, the report is returned
HealthExit(r) ==
    /\ pc[r] = "hloop"
    /\ Len(health_status[r].downstream_services) = Len(service_routes)
    /\ aexit
    /\ Answer(r, local_response("health"))
    /\ UNCHANGED << resolver, fwd_headers, max_retries, service_routes, request, upstream,
                    service_url, url, body, attempt, tries, health_status >>

(***************************************************************************)
(* The gateway.                                                            *)
(***************************************************************************)
Next ==
    \E r \in Reqs :
        \/ \E req \in Requests : ReceiveLocal(r, req)
        \/ \E req \in Requests : ReceiveReserved(r, req)
        \/ \E req \in Requests, ups \in Upstreams : ReceiveProxy(r, req, ups)
        \/ \E ok \in BOOLEAN : ReadBody(r, ok)
        \/ Call(r)
        \/ \E got \in {"response", "timeout", "connect", "other", "aborted"} :
               Return(r, got)
        \/ FallThrough(r)
        \/ \E req \in Requests, ups \in HealthUpstreams :
               HealthStart(r, req, ups)
        \/ HealthCall(r)
        \/ \E got \in {"response", "timeout", "connect", "other", "aborted"} :
               HealthReturn(r, got)
        \/ HealthExit(r)
        \/ Deliver(r)

Spec == Init /\ [][Next]_vars

(***************************************************************************)
(* Route resolution on its own: get_service_url and the outbound URL are   *)
(* pure functions of proxy.service_routes, the path and the query string.  *)
(* Settings.service_routes has fixed prefixes and URLs taken from the      *)
(* environment; get_service_url reads whatever mapping proxy.service_routes*)
(* holds, so the last table (nested prefixes) is explored as well.         *)
(***************************************************************************)
SettingsTables ==
    { DefaultRoutes,
      SettingsRoutes("http://auth:8000", "http://tasks:8000",
                     "http://notifications:8000/"),
      SettingsRoutes("http://auth:8000//", "http://tasks:8000/v2/", "/") }

NestedRoutes ==
    << [name |-> "api", url |-> "http://api:8000", prefix |-> "/api"],
       [name |-> "tasks", url |-> "http://tasks:8000",
        prefix |-> "/api/v1/tasks"],
       [name |-> "auth", url |-> "http://auth:8000/", prefix |-> "/auth"] >>

RouteTables == SettingsTables \cup {NestedRoutes}

Paths ==
    { "", "/", "/auth", "/auth/", "/auth/login", "/authx", "/auth//x",
      "auth/login", "/AUTH/login", "/x/auth/login", "/nowhere",
      "/api", "/api/v1", "/api/v1/task", "/api/v1/tasks", "/api/v1/tasks/",
      "/api/v1/tasks/5", "/api/v1/tasks5", "/api/v1/notifications",
      "/api/v1/notifications/7/read" }

Queries == { "", "x=1" }

InitResolve ==
    /\ max_retries = MaxRetriesCfg
    /\ service_routes \in RouteTables
    /\ Idle
    /\ arg \in [path : Paths, query : Queries]
    /\ result = NoResult
    /\ SanitizerIdle
    /\ AsideIdle

\* forward_request resolves the route of arg and builds the outbound URL
Resolve ==
    /\ result = NoResult
    /\ result' = route_request(service_routes, arg.path, arg.query)
    /\ UNCHANGED << max_retries, service_routes, client_closed, pc, request,
                    upstream, service_url, url, fwd_headers, body, attempt,
                    flight, tries,
                    health_status, response, arg, sanitizer, aside >>

NextResolve == Resolve

SpecResolve == InitResolve /\ [][NextResolve]_vars

(***************************************************************************)
(* Headers on their own: the header lists tried.                           *)
(***************************************************************************)
\* the header lists a client sends (at most MaxHeaders headers)
MaxHeaders == 2

HeaderPool ==
    { << "Authorization", "Bearer t" >>, << "accept", "*/*" >>,
      << "X-Real-IP", "6.6.6.6" >>, << "x-real-ip", "7.7.7.7" >>,
      << "X-Forwarded-For", "8.8.8.8" >>, << "x-forwarded-for", "9.9.9.9" >>,
      << "Connection", "close" >>, << "Keep-Alive", "timeout=5" >>,
      << "PROXY-AUTHENTICATE", "Basic" >>, << "Proxy-Authorization", "x" >>,
      << "TE", "trailers" >>, << "Trailers", "Expires" >>,
      << "transfer-encoding", "chunked" >>, << "UpGrade", "h2c" >>,
      << "HOST", "gateway" >> }

HeaderLists(pool) ==
    UNION { [1..n -> pool] : n \in 0..MaxHeaders }

Inbounds == [headers : HeaderLists(HeaderPool), client : {"10.0.0.1", None}]

RECURSIVE joined_values(_, _, _)
\* httpx.Headers.__getitem__: the values of every line named k, from line i
\* on, joined with ", "
joined_values(h, k, i) ==
    IF i > Len(h) THEN ""
    ELSE LET rest == joined_values(h, k, i + 1) IN
         IF h[i][1] # k THEN rest
         ELSE IF rest = "" THEN h[i][2] ELSE h[i][2] \o ", " \o rest

RECURSIVE all_values(_, _)
\* dict(response.headers): keys() lists every name once, [] joins its values
all_values(h, i) ==
    IF i > Len(h) THEN << >>
    ELSE LET rest == all_values(h, i + 1)
             k == h[i][1]
         IN  IF \E j \in 1..(i - 1) : h[j][1] = k
             THEN rest
             ELSE << << k, joined_values(h, k, i) >> >> \o rest

\* forward_request: the headers popped from the response
removed_response_headers ==
    { "connection", "transfer-encoding", "content-encoding" }

\* forward_request, "Prepare response headers" to "Add gateway headers";
\* raw is the header list the upstream sent, svc the service_url of the
\* route (str(duration) is a measured time, kept as a token)
sanitize_response_headers(raw, svc) ==
    LET h0 == all_values(lower_names(raw), 1)
        h1 == dict_pop_all(h0, removed_response_headers)
        h2 == dict_set(h1, "X-Gateway-Service", svc)
    IN  dict_set(h2, "X-Gateway-Duration", "str(duration)")

\* the header lines an upstream answers with
ReplyPool ==
    { << "Content-Type", "application/json" >>, << "Set-Cookie", "a=1" >>,
      << "Set-Cookie", "b=2" >>, << "Connection", "keep-alive" >>,
      << "Transfer-Encoding", "chunked" >>, << "Content-Encoding", "gzip" >>,
      << "X-Gateway-Service", "http://elsewhere" >>,
      << "X-Request-Id", "42" >> }

Replies ==
    [headers : HeaderLists(ReplyPool),
     service : {auth_service_url, task_service_url}]

\* either a request whose headers are to be prepared, or an upstream's
\* response whose headers are to be returned
InitHeaders ==
    /\ max_retries = MaxRetriesCfg
    /\ service_routes = DefaultRoutes
    /\ Idle
    /\ arg = NoArg
    /\ result = NoResult
    /\ headers = Unset
    /\ response_headers = Unset
    /\ \/ inbound \in Inbounds /\ reply = NoReply
       \/ inbound = NoInbound /\ reply \in Replies
    /\ AsideIdle

\* forward_request: `headers = self.prepare_headers(request)`
PrepareHeaders ==
    /\ inbound # NoInbound
    /\ headers = Unset
    /\ headers' = prepare_headers(inbound.headers, inbound.client)
    /\ UNCHANGED << max_retries, service_routes, client_closed, pc, request,
                    upstream, service_url, url, fwd_headers, body, attempt,
                    flight, tries,
                    health_status, response, arg, result, inbound, reply,
                    response_headers, aside >>

\* forward_request: the headers of the Response returned on success
SanitizeResponse ==
    /\ reply # NoReply
    /\ response_headers = Unset
    /\ response_headers' = sanitize_response_headers(reply.headers, reply.service)
    /\ UNCHANGED << max_retries, service_routes, client_closed, pc, request,
                    upstream, service_url, url, fwd_headers, body, attempt,
                    flight, tries,
                    health_status, response, arg, result, inbound, headers,
                    reply, aside >>

NextHeaders == PrepareHeaders \/ SanitizeResponse

SpecHeaders == InitHeaders /\ [][NextHeaders]_vars

(***************************************************************************)
(* main.py request_logging_middleware on its own.  call_next is what the   *)
(* rest of the application does with the request: "response" (a handler's  *)
(* or an upstream's response), "http_error" (an HTTPException, which the    *)
(* exception handler turns into a response before call_next returns) or    *)
(* "exception" (any other exception: call_next raises it).                 *)
(***************************************************************************)
\* `request.url.path not in ["/health", "/ping"]`
unlogged_paths == {"/health", "/ping"}

HttpRequests ==
    [method : {"GET", "POST"},
     path : {"/health", "/ping", "/routes", "/auth/login", "/nowhere"},
     client : {"10.0.0.1", None}]

CallNexts == {"response", "http_error", "exception"}

\* response.status_code of what call_next returns
status_of(outcome) == IF outcome = "http_error" THEN 404 ELSE 200

\* the line logged before call_next (request.client.host is read)
entry_line(req) ==
    [line |-> "entry", method |-> req.method, path |-> req.path,
     detail |-> req.client]

\* the line logged after call_next
exit_line(req, outcome) ==
    [line |-> "exit", method |-> req.method, path |-> req.path,
     detail |-> status_of(outcome)]

InitLogging ==
    /\ max_retries = MaxRetriesCfg
    /\ service_routes = DefaultRoutes
    /\ Idle
    /\ arg = NoArg
    /\ result = NoResult
    /\ SanitizerIdle
    /\ PoolIdle
    /\ NotificationsIdle
    /\ http_request \in HttpRequests
    /\ call_next \in CallNexts
    /\ middleware_pc = "start"
    /\ log = << >>

\* the middleware up to `await call_next(request)`: reading
\* request.client.host of a request without client address raises
\* AttributeError
MiddlewareEntry ==
    /\ middleware_pc = "start"
    /\ IF http_request.path \in unlogged_paths
       THEN /\ middleware_pc' = "call_next"
            /\ UNCHANGED log
       ELSE IF http_request.client = None
            THEN /\ middleware_pc' = "raised"
                 /\ UNCHANGED log
            ELSE /\ log' = Append(log, entry_line(http_request))
                 /\ middleware_pc' = "call_next"
    /\ UNCHANGED << gateway, arg, result, sanitizer, connections,
                    notifications, http_request, call_next >>

\* `response = await call_next(request)` returns or raises
CallNext ==
    /\ middleware_pc = "call_next"
    /\ middleware_pc' = IF call_next = "exception" THEN "raised" ELSE "returned"
    /\ UNCHANGED << gateway, arg, result, sanitizer, connections,
                    notifications, http_request, call_next, log >>

\* the middleware after call_next has returned
MiddlewareExit ==
    /\ middleware_pc = "returned"
    /\ log' = IF http_request.path \in unlogged_paths THEN log
              ELSE Append(log, exit_line(http_request, call_next))
    /\ middleware_pc' = "done"
    /\ UNCHANGED << gateway, arg, result, sanitizer, connections,
                    notifications, http_request, call_next >>

NextLogging == MiddlewareEntry \/ CallNext \/ MiddlewareExit

SpecLogging == InitLogging /\ [][NextLogging]_vars

(***************************************************************************)
(* proxy.py: the connection pool of proxy.client on its own.  The client   *)
(* is built with Limits(max_connections=connection_pool_limits) and         *)
(* timeout=request_timeout: a call that finds every connection in use      *)
(* waits for one, for at most request_timeout seconds (httpx.PoolTimeout,  *)
(* a TimeoutException, is raised then).                                    *)
(***************************************************************************)
\* the largest connection_pool_limits tried
MaxPool == 2

\* the outbound calls that run at the same time
Calls == {"c1", "c2", "c3"}

\* a call holds a connection: it got one at once ("open") or after a wait
\* ("resumed")
Holding == {"open", "resumed"}

\* the connections in use
InUse == Cardinality({c \in Calls : connection[c] \in Holding})

InitPool ==
    /\ max_retries = MaxRetriesCfg
    /\ service_routes = DefaultRoutes
    /\ Idle
    /\ arg = NoArg
    /\ result = NoResult
    /\ SanitizerIdle
    /\ LoggingIdle
    /\ NotificationsIdle
    /\ connection_pool_limits \in 1..MaxPool
    /\ connection = [c \in Calls |-> "idle"]

\* `await self.client.request(...)`: the call takes a connection, or waits
\* for one when connection_pool_limits of them are in use
Request(c) ==
    /\ connection[c] = "idle"
    /\ connection' = [connection EXCEPT ![c] =
           IF InUse < connection_pool_limits THEN "open" ELSE "waiting"]
    /\ UNCHANGED << gateway, arg, result, sanitizer, logging, notifications,
                    connection_pool_limits >>

\* a waiting call gets the connection that has been freed
Acquire(c) ==
    /\ connection[c] = "waiting"
    /\ InUse < connection_pool_limits
    /\ connection' = [connection EXCEPT ![c] = "resumed"]
    /\ UNCHANGED << gateway, arg, result, sanitizer, logging, notifications,
                    connection_pool_limits >>

\* a call has waited request_timeout seconds while the pool stayed full:
\* PoolTimeout is raised in forward_request (except httpx.TimeoutException)
PoolTimeout(c) ==
    /\ connection[c] = "waiting"
    /\ InUse >= connection_pool_limits
    /\ connection' = [connection EXCEPT ![c] = "pool_timeout"]
    /\ UNCHANGED << gateway, arg, result, sanitizer, logging, notifications,
                    connection_pool_limits >>

\* the call ends and its connection goes back to the pool
Release(c) ==
    /\ connection[c] \in Holding
    /\ connection' = [connection EXCEPT ![c] = "done"]
    /\ UNCHANGED << gateway, arg, result, sanitizer, logging, notifications,
                    connection_pool_limits >>

NextPool ==
    \E c \in Calls : Request(c) \/ Acquire(c) \/ PoolTimeout(c) \/ Release(c)

SpecPool == InitPool /\ [][NextPool]_vars

(***************************************************************************)
(* The notification service: the list processed_notifications of main.py  *)
(* and the list of the same name of NotificationManager.  A record is      *)
(* [id, event_type, timestamp]; the timestamp tells the records apart.     *)
(***************************************************************************)
\* the cap of the list of main.py (1000 in the source, scaled down)
WebhookCap == 2

\* the cap of the list of NotificationManager (100 in the source, scaled
\* down)
ManagerCap == 2

\* the records created in a run
MaxRecords == 5

\* the notification dict built by a handler for the list it is added to
notification(list, event_type) ==
    [id |-> Len(list) + 1, event_type |-> event_type, timestamp |-> clock + 1]

InitNotifications ==
    /\ max_retries = MaxRetriesCfg
    /\ service_routes = DefaultRoutes
    /\ Idle
    /\ arg = NoArg
    /\ result = NoResult
    /\ SanitizerIdle
    /\ LoggingIdle
    /\ PoolIdle
    /\ processed_notifications = << >>
    /\ manager_notifications = << >>
    /\ clock = 0

\* POST /webhook/task_created: append, then pop(0) above the cap
handle_task_created ==
    /\ clock < MaxRecords
    /\ LET appended == Append(processed_notifications,
                              notification(processed_notifications,
                                           "task_created"))
       IN  processed_notifications' =
               IF Len(appended) > WebhookCap THEN Tail(appended) ELSE appended
    /\ clock' = clock + 1
    /\ UNCHANGED << gateway, arg, result, sanitizer, logging, connections,
                    manager_notifications >>

\* POST /webhook/task_updated: append
handle_task_updated ==
    /\ clock < MaxRecords
    /\ processed_notifications' =
           Append(processed_notifications,
                  notification(processed_notifications, "task_updated"))
    /\ clock' = clock + 1
    /\ UNCHANGED << gateway, arg, result, sanitizer, logging, connections,
                    manager_notifications >>

\* DELETE /logs
clear_logs ==
    /\ processed_notifications' = << >>
    /\ UNCHANGED << gateway, arg, result, sanitizer, logging, connections,
                    manager_notifications, clock >>

\* NotificationManager.store_processed_notification: pop(0) at the cap,
\* then append
store_processed_notification(event_type) ==
    /\ clock < MaxRecords
    /\ LET record == notification(manager_notifications, event_type)
           kept == IF Len(manager_notifications) >= ManagerCap
                   THEN Tail(manager_notifications)
                   ELSE manager_notifications
       IN  manager_notifications' = Append(kept, record)
    /\ clock' = clock + 1
    /\ UNCHANGED << gateway, arg, result, sanitizer, logging, connections,
                    processed_notifications >>

NextNotifications ==
    \/ handle_task_created
    \/ handle_task_updated
    \/ clear_logs
    \/ store_processed_notification("task_created")

SpecNotifications == InitNotifications /\ [][NextNotifications]_vars

(***************************************************************************)
(* The gateway when every coroutine that can run does run: the event loop  *)
(* resumes forward_request of each request, and each outbound call ends.   *)
(***************************************************************************)
\* a step of forward_request for r
Progress(r) ==
    \/ \E ok \in BOOLEAN : ReadBody(r, ok)
    \/ Call(r)
    \/ \E got \in {"response", "timeout", "connect", "other", "aborted"} :
           Return(r, got)
    \/ FallThrough(r)

SpecLive == Spec /\ \A r \in Reqs : WF_vars(Progress(r))

(***************************************************************************)
(* Properties.                                                             *)
(***************************************************************************)
\* r is in forward_request with a matched route
Forwarded(r) == service_url[r] # None

\* the kinds of result of the calls r has made, in order
Got(r) == [i \in 1..Len(tries[r]) |-> tries[r][i].got]

\* the calls of r: those that ended and the one in flight
Attempts(r) == Len(tries[r]) + (IF pc[r] = "flight" THEN 1 ELSE 0)

\* C1: a request to a matched route that comes after completed requests and
\* whose upstream answers gets the upstream's response (the request made a
\* call, and no call of it was in flight when another request completed).
C1_LaterRequestGetsUpstreamResponse ==
    \A r \in Reqs :
        ( /\ pc[r] = "done"
          /\ Forwarded(r)
          /\ tries[r] # << >>
          /\ \A i \in 1..Len(tries[r]) : tries[r][i].got # "aborted"
          /\ tries[r][1].up.kind = "response" )
        => response[r] = upstream_response(tries[r][1].up, service_url[r])

\* C2: a forwarded request that made its first call while no other request
\* had completed, and none of whose calls was in flight when another
\* request completed, sees every call end as its own upstream makes it
\* end: what the other request does between its attempts changes nothing.
C2_CallsEndAsOwnUpstreamDecides ==
    \A r \in Reqs :
        ( /\ Forwarded(r)
          /\ tries[r] # << >>
          /\ tries[r][1].got # "closed"
          /\ \A i \in 1..Len(tries[r]) : tries[r][i].got # "aborted" )
        => \A i \in 1..Len(tries[r]) : tries[r][i].got = tries[r][i].up.kind

\* C3: a forwarded request all of whose attempts failed with a connection
\* error has made exactly max_retries attempts and is answered 503.
C3_ConnectErrorsGive503 ==
    \A r \in Reqs :
        ( /\ pc[r] = "done"
          /\ Forwarded(r)
          /\ tries[r] # << >>
          /\ \A i \in 1..Len(tries[r]) : tries[r][i].got = "connect" )
        => /\ Len(tries[r]) = max_retries
           /\ response[r].status = 503
           /\ response[r].type = "gateway_error"

C3_Witness ==
    \E r \in Reqs :
        /\ pc[r] = "done"
        /\ Forwarded(r)
        /\ max_retries >= 2
        /\ Len(tries[r]) = max_retries
        /\ \A i \in 1..Len(tries[r]) : tries[r][i].got = "connect"
        /\ response[r].status = 503

\* C4: an attempt that received a response from the upstream is the last
\* attempt of its request, and the client gets that status and body.
C4_ResponseReturnedUnchanged ==
    \A r \in Reqs :
        Forwarded(r) =>
            \A i \in 1..Len(tries[r]) :
                tries[r][i].got = "response" =>
                    /\ i = Len(tries[r])
                    /\ pc[r] = "done"
                    /\ response[r].type = "upstream"
                    /\ response[r].status = tries[r][i].up.status
                    /\ response[r].content = tries[r][i].up.content

C4_Witness ==
    \E r \in Reqs :
        /\ pc[r] = "done"
        /\ Forwarded(r)
        /\ max_retries >= 2
        /\ Len(tries[r]) = 1
        /\ tries[r][1].got = "response"
        /\ tries[r][1].up.status = 500
        /\ response[r].status = 500
        /\ response[r].content = "boom"

\* C5: a forwarded request makes at most max_retries attempts, and every
\* attempt but the last one made ended in a failure, not in a response.
C5_AtMostMaxRetriesAttempts ==
    \A r \in Reqs :
        Forwarded(r) =>
            /\ Attempts(r) <= max_retries
            /\ \A i \in 1..(Attempts(r) - 1) : tries[r][i].got # "response"

C5_Witness ==
    \E r \in Reqs :
        /\ Forwarded(r)
        /\ pc[r] = "flight"
        /\ max_retries >= 2
        /\ Attempts(r) = max_retries
        /\ \A i \in 1..Len(tries[r]) :
               tries[r][i].got \in {"timeout", "connect", "other"}

\* C6: a forwarded request all of whose attempts timed out has made
\* max_retries attempts and is answered 504; after a timeout on an attempt
\* that is not the last the request goes on without an answer.
C6_TimeoutsGive504 ==
    \A r \in Reqs :
        /\ ( /\ pc[r] = "done"
             /\ Forwarded(r)
             /\ tries[r] # << >>
             /\ \A i \in 1..Len(tries[r]) : tries[r][i].got = "timeout" )
           => /\ Len(tries[r]) = max_retries
              /\ response[r].status = 504
              /\ response[r].type = "gateway_error"
        /\ ( /\ Forwarded(r)
             /\ tries[r] # << >>
             /\ tries[r][Len(tries[r])].got = "timeout"
             /\ Len(tries[r]) < max_retries )
           => /\ pc[r] \in {"loop", "flight"}
              /\ response[r] = NoResponse

C6_Witness ==
    \E r \in Reqs :
        /\ pc[r] = "done"
        /\ Forwarded(r)
        /\ max_retries >= 2
        /\ Len(tries[r]) = max_retries
        /\ \A i \in 1..Len(tries[r]) : tries[r][i].got = "timeout"
        /\ response[r].status = 504

\* p is a literal prefix of s
IsPrefixOf(p, s) == \E n \in 0..Len(s) : SubSeq(s, 1, n) = p

\* s = p \o Remainder(p, s), for p a prefix of s
Remainder(p, s) ==
    CHOOSE t \in {SubSeq(s, n + 1, Len(s)) : n \in 0..Len(s)} : p \o t = s

\* s with the prefix p removed and a leading '/' guaranteed
Downstream(p, s) ==
    LET rest == Remainder(p, s) IN
    IF rest = "" \/ SubSeq(rest, 1, 1) # "/" THEN "/" \o rest ELSE rest

\* the routes of the table whose prefix is a literal prefix of the path
Matching(routes, path) ==
    {i \in 1..Len(routes) : IsPrefixOf(routes[i].prefix, path)}

\* C7: get_service_url returns the URL of the first route, in declaration
\* order, whose prefix is a literal prefix of the path, and the path with
\* that prefix removed and a '/' put in front when the remainder is empty
\* or does not start with '/'; the returned path starts with '/'.
C7_FirstMatchInDeclarationOrder ==
    (result # NoResult /\ Matching(service_routes, arg.path) # {}) =>
        LET matching == Matching(service_routes, arg.path)
            first == CHOOSE i \in matching : \A j \in matching : i <= j
        IN  /\ result.service_url = service_routes[first].url
            /\ result.cleaned_path =
                   Downstream(service_routes[first].prefix, arg.path)
            /\ SubSeq(result.cleaned_path, 1, 1) = "/"

C7_Witness ==
    /\ service_routes = NestedRoutes
    /\ arg.path = "/api/v1/tasks/5"
    /\ result.service_url = "http://api:8000"
    /\ result.cleaned_path = "/v1/tasks/5"

\* C8: with the routes of Settings.service_routes, for every route R and
\* path P that starts with R.prefix, resolution returns R's URL and P with
\* R.prefix removed and a leading '/' guaranteed.
C8_EveryConfiguredRouteResolves ==
    (result # NoResult /\ service_routes \in SettingsTables) =>
        \A i \in 1..Len(service_routes) :
            IsPrefixOf(service_routes[i].prefix, arg.path) =>
                /\ result.service_url = service_routes[i].url
                /\ result.cleaned_path =
                       Downstream(service_routes[i].prefix, arg.path)

C8_Witness ==
    /\ service_routes = DefaultRoutes
    /\ arg.path = "/api/v1/tasks"
    /\ result.service_url = task_service_url
    /\ result.cleaned_path = "/"

\* C9: a request that reaches proxy_request and whose path starts with no
\* configured prefix is answered 404 with error.type "gateway_error", at
\* once and without any call to an upstream.
C9_NoRouteGives404 ==
    \A r \in Reqs :
        ( /\ pc[r] # "idle"
          /\ ToCatchAll(request[r])
          /\ Matching(service_routes, request[r].path) = {} )
        => /\ pc[r] = "done"
           /\ service_url[r] = None
           /\ tries[r] = << >>
           /\ flight[r] = NoCall
           /\ response[r].status = 404
           /\ response[r].type = "gateway_error"
           /\ response[r].path = request[r].path

C9_Witness ==
    \E r \in Reqs :
        /\ pc[r] = "done"
        /\ request[r].path = "/api/v1/task"
        /\ response[r].status = 404
        /\ response[r].type = "gateway_error"
        /\ response[r].message = "No service found for path: /api/v1/task"

\* u without its trailing '/' characters
WithoutTrailingSlashes(u) ==
    LET n == CHOOSE n \in 0..Len(u) :
                 /\ n = 0 \/ SubSeq(u, n, n) # "/"
                 /\ \A k \in (n + 1)..Len(u) : SubSeq(u, k, k) = "/"
    IN  SubSeq(u, 1, n)

\* C10: the outbound URL is the matched base URL without trailing '/',
\* then the downstream path, then '?' and the query string exactly when
\* the query string is not empty; the two examples of the specification.
C10_OutboundUrl ==
    (result # NoResult /\ result.status # 404) =>
        /\ result.url =
               WithoutTrailingSlashes(result.service_url)
               \o result.cleaned_path
               \o (IF arg.query = "" THEN "" ELSE "?" \o arg.query)
        /\ ( /\ service_routes[1].url = "http://auth:8000"
             /\ arg = [path |-> "/auth/login", query |-> ""] )
           => result.url = "http://auth:8000/login"
        /\ ( /\ service_routes[2].url = "http://tasks:8000"
             /\ service_routes[2].prefix = "/api/v1/tasks"
             /\ service_routes \in SettingsTables
             /\ arg = [path |-> "/api/v1/tasks/5", query |-> "x=1"] )
           => result.url = "http://tasks:8000/5?x=1"

C10_Witness ==
    /\ service_routes \in SettingsTables
    /\ service_routes[3].url = "http://notifications:8000/"
    /\ arg = [path |-> "/api/v1/notifications/7/read", query |-> "x=1"]
    /\ result.url = "http://notifications:8000/7/read?x=1"

\* the values of the headers of a dict or header list named name, the
\* names compared case-insensitively
ValuesNamed(d, name) ==
    {d[i][2] : i \in {j \in 1..Len(d) : lower(d[j][1]) = lower(name)}}

\* C11: in the dict prepare_headers returns, every header named X-Real-IP
\* (in any casing) has the client address as its value.
C11_RealIpIsClientAddress ==
    headers # Unset =>
        ValuesNamed(headers, "X-Real-IP") = {client_ip(inbound.client)}

\* C12: in the dict prepare_headers returns, X-Forwarded-For (in any
\* casing) carries a value of the inbound X-Forwarded-For header when the
\* request has one, and the client address only when it has none.
C12_ForwardedForPreserved ==
    headers # Unset =>
        /\ ValuesNamed(headers, "X-Forwarded-For") # {}
        /\ IF ValuesNamed(inbound.headers, "X-Forwarded-For") # {}
           THEN ValuesNamed(headers, "X-Forwarded-For")
                    \subseteq ValuesNamed(inbound.headers, "X-Forwarded-For")
           ELSE ValuesNamed(headers, "X-Forwarded-For")
                    = {client_ip(inbound.client)}

\* C13: whatever the casing of the inbound header names, the dict
\* prepare_headers returns has no header named connection, keep-alive,
\* proxy-authenticate, proxy-authorization, te, trailers,
\* transfer-encoding, upgrade or host.
C13_NoHopByHopHeaders ==
    headers # Unset =>
        \A name \in { "connection", "keep-alive", "proxy-authenticate",
                      "proxy-authorization", "te", "trailers",
                      "transfer-encoding", "upgrade", "host" } :
            ValuesNamed(headers, name) = {}

C13_Witness ==
    /\ inbound.headers = << << "HOST", "gateway" >>,
                            << "Authorization", "Bearer t" >> >>
    /\ headers # Unset
    /\ ValuesNamed(headers, "host") = {}
    /\ ValuesNamed(headers, "authorization") = {"Bearer t"}

(***************************************************************************)
(* The health endpoint.                                                    *)
(***************************************************************************)
\* r is a GET /health request
IsHealth(r) == request[r].method = "GET" /\ request[r].path = "/health"

\* the entries of the report of r
Entries(r) == health_status[r].downstream_services

\* C14: GET /health never fails as a whole: it is answered with HTTP 200
\* and never with an error, the report has one entry per configured route,
\* in the order of the table, the gateway reports itself healthy, and an
\* entry is unhealthy exactly when its own call did not answer 200.
C14_HealthNeverFailsAsAWhole ==
    \A r \in Reqs :
        IsHealth(r) =>
            /\ health_status[r].gateway = "healthy"
            /\ response[r] \in {NoResponse, local_response("health")}
            /\ Len(Entries(r)) = Len(tries[r])
            /\ \A i \in 1..Len(Entries(r)) :
                   /\ Entries(r)[i].name = service_routes[i].name
                   /\ Entries(r)[i].record.status = "unhealthy" <=>
                          ~(/\ tries[r][i].got = "response"
                            /\ tries[r][i].up.status = 200)
            /\ pc[r] = "done" =>
                   /\ response[r].status = 200
                   /\ Len(Entries(r)) = Len(service_routes)

C14_Witness ==
    \E r \in Reqs :
        /\ IsHealth(r) /\ pc[r] = "done"
        /\ tries[r][1].got = "response" /\ tries[r][1].up.status = 200
        /\ tries[r][2].got = "connect"
        /\ tries[r][3].got = "response" /\ tries[r][3].up.status = 200
        /\ Entries(r)[2].record.status = "unhealthy"
        /\ Entries(r)[3].record.status = "healthy"

\* C15: in the report of GET /health, overall_status is "degraded" exactly
\* when an entry is not healthy, and the entries say what the upstreams do:
\* a service that answers its health call with 200 is reported healthy, also
\* when the request is not the first one the gateway serves.
C15_OverallStatusFollowsUpstreams ==
    \A r \in Reqs :
        (/\ IsHealth(r) /\ pc[r] = "done"
         /\ \A i \in 1..Len(tries[r]) : tries[r][i].got # "aborted") =>
            /\ health_status[r].overall_status = "degraded" <=>
                   \E i \in 1..Len(Entries(r)) :
                       Entries(r)[i].record.status # "healthy"
            /\ health_status[r].overall_status \in {"healthy", "degraded"}
            /\ \A i \in 1..Len(Entries(r)) :
                   Entries(r)[i].record.status = "healthy" <=>
                       (/\ tries[r][i].up.kind = "response"
                        /\ tries[r][i].up.status = 200)

\* C16: a service is healthy exactly when its health call returned 200; a
\* call that raised gives an unhealthy record holding the exception message.
C16_HealthRecordOfOwnCall ==
    \A r \in Reqs :
        IsHealth(r) =>
            \A i \in 1..Len(Entries(r)) :
                LET rec == Entries(r)[i].record
                    try == tries[r][i]
                IN  /\ rec.status \in {"healthy", "unhealthy"}
                    /\ rec.status = "healthy" <=>
                           (try.got = "response" /\ try.up.status = 200)
                    /\ try.got = "response" =>
                           rec.status_code = try.up.status /\ rec.error = None
                    /\ try.got # "response" =>
                           /\ rec.status = "unhealthy"
                           /\ rec.error = exception_message(try.got)
                    /\ rec.url = service_routes[i].url

C16_Witness ==
    \E r \in Reqs :
        /\ IsHealth(r) /\ Len(Entries(r)) = 3
        /\ tries[r][1].got = "response" /\ tries[r][1].up.status = 500
        /\ Entries(r)[1].record.status = "unhealthy"
        /\ Entries(r)[1].record.status_code = 500
        /\ tries[r][2].got = "timeout"
        /\ Entries(r)[2].record.error = exception_message("timeout")
        /\ tries[r][3].got = "other"
        /\ Entries(r)[3].record.status = "unhealthy"

(***************************************************************************)
(* Reserved paths.                                                         *)
(***************************************************************************)
\* r asks for one of the paths the gateway keeps for itself
Reserved(r) ==
    request[r].path \in
        {"/", "/health", "/routes", "/ping", "/docs", "/redoc", "/openapi.json"}

\* r is answered by a handler declared before the catch-all
ServedLocally(r) ==
    \/ request[r].method = "GET"
           /\ request[r].path \in {"/", "/health", "/routes", "/ping"}
    \/ request[r].method \in {"GET", "HEAD"}
           /\ request[r].path \in {"/docs", "/redoc", "/openapi.json"}

\* C17 as stated: a request for a reserved path never causes a call to an
\* upstream.
C17_ReservedPathMakesNoOutboundCall ==
    \A r \in Reqs :
        Reserved(r) => tries[r] = << >> /\ flight[r] = NoCall

\* C17 amended: a request for a reserved path is never handed to
\* forward_request, for any method of the catch-all route; it is served by
\* the local handler when method and path match one (GET /health then calls
\* the /health of every configured upstream, and nothing else does), and it
\* is answered 404 "Endpoint not found" otherwise.
C17_ReservedPathNeverForwarded ==
    \A r \in Reqs :
        Reserved(r) =>
            /\ pc[r] \in {"done", "hloop", "hflight"}
            /\ service_url[r] = None /\ url[r] = None /\ body[r] = None
            /\ attempt[r] = 0
            /\ IsHealth(r) \/ (tries[r] = << >> /\ flight[r] = NoCall)
            /\ Len(tries[r]) <= Len(service_routes)
            /\ pc[r] = "done" =>
                   IF ServedLocally(r)
                   THEN response[r].status = 200
                            /\ response[r].type \in {"local", "health"}
                   ELSE response[r] = http_exception_handler(
                            request[r], 404, "Endpoint not found")

C17_Witness ==
    \E r \in Reqs, q \in Reqs :
        /\ request[r].method = "POST" /\ request[r].path = "/health"
        /\ pc[r] = "done" /\ response[r].status = 404
        /\ response[r].message = "Endpoint not found"
        /\ IsHealth(q) /\ pc[q] = "done" /\ Len(tries[q]) = 3

(***************************************************************************)
(* Errors of the gateway.                                                  *)
(***************************************************************************)
\* C18: an error the gateway produces while proxying reaches the client as
\* the JSON body {error: {type, status_code, message, path, timestamp,
\* gateway}} with error.status_code the HTTP status of the response and
\* error.path the path of the request; a request whose last call raised is
\* never answered with anything but such an error.
C18_ErrorsReachClientStructured ==
    \A r \in Reqs :
        (pc[r] = "done" /\ ToCatchAll(request[r])) =>
            /\ response[r].type \in {"gateway_error", "upstream"}
            /\ response[r].type = "upstream" =>
                   /\ tries[r] # << >>
                   /\ tries[r][Len(tries[r])].got = "response"
            /\ response[r].type = "gateway_error" =>
                   /\ response[r].status \in {404, 500, 503, 504}
                   /\ response[r].status_code = response[r].status
                   /\ response[r].path = request[r].path
                   /\ response[r].message # ""
                   /\ response[r].timestamp # ""
                   /\ response[r].gateway = "task_manager_api_gateway"
            /\ (tries[r] # << >> /\ tries[r][Len(tries[r])].got # "response") =>
                   /\ response[r].type = "gateway_error"
                   /\ response[r].status \in {500, 503, 504}
            /\ request[r].path \in gateway_endpoints =>
                   response[r].type = "gateway_error" /\ response[r].status = 404
            /\ (~Forwarded(r) /\ request[r].path \notin gateway_endpoints) =>
                   response[r].type = "gateway_error" /\ response[r].status = 404

C18_Witness ==
    \E r \in Reqs, q \in Reqs :
        /\ pc[r] = "done" /\ Forwarded(r)
        /\ request[r].path = "/auth/login"
        /\ tries[r] # << >>
        /\ tries[r][Len(tries[r])].got = "connect"
        /\ response[r].status = 503 /\ response[r].status_code = 503
        /\ response[r].path = "/auth/login"
        /\ pc[q] = "done" /\ request[q].path = "/nowhere"
        /\ response[q].status = 404 /\ response[q].status_code = 404
        /\ response[q].path = "/nowhere"

\* C20 as stated: forward_request on a matched route never ends in the raise
\* that follows the retry loop ("Request forwarding failed"): it ends with
\* the upstream's response or with one of the three classified failures.
C20_FallbackNeverReached ==
    \A r \in Reqs :
        (pc[r] = "done" /\ Forwarded(r)) =>
            /\ response[r].message # "Request forwarding failed"
            /\ \/ response[r].type = "upstream"
               \/ /\ response[r].type = "gateway_error"
                  /\ tries[r] # << >>
                  /\ response[r].status \in {500, 503, 504}

(***************************************************************************)
(* Response headers.                                                       *)
(***************************************************************************)
\* C19 as stated: the headers of the response returned on a successful
\* forward hold no connection, transfer-encoding or content-encoding header,
\* hold X-Gateway-Service with the service URL of the route as its one value,
\* and hold every other header line of the upstream with its value unchanged.
C19_ResponseHeadersKept ==
    response_headers # Unset =>
        /\ \A name \in {"connection", "transfer-encoding", "content-encoding"} :
               ValuesNamed(response_headers, name) = {}
        /\ ValuesNamed(response_headers, "X-Gateway-Service") = {reply.service}
        /\ \A i \in 1..Len(reply.headers) :
               lower(reply.headers[i][1]) \notin
                       {"connection", "transfer-encoding", "content-encoding",
                        "x-gateway-service", "x-gateway-duration"}
                   => reply.headers[i][2] \in
                          ValuesNamed(response_headers, reply.headers[i][1])

(***************************************************************************)
(* The retry loop.                                                         *)
(***************************************************************************)
\* r is inside forward_request, past route resolution
InForward(r) == pc[r] \in {"body", "loop", "flight"}

\* forward_request of r has ended as the state machine allows: with the
\* response of its last call, or with one error raised after exactly
\* max_retries failed calls
EndedAsAllowed(r) ==
    /\ Len(tries[r]) <= max_retries
    /\ \/ /\ response[r].type = "upstream"
          /\ tries[r] # << >>
          /\ tries[r][Len(tries[r])].got = "response"
       \/ /\ response[r].type = "gateway_error"
          /\ Len(tries[r]) = max_retries
          /\ \A i \in 1..Len(tries[r]) : tries[r][i].got # "response"

\* C21: every call of forward_request on a matched route terminates when
\* each of its outbound calls ends: it always reaches Done (a response) or
\* Fail (one HTTPException), after at most max_retries attempts.
C21_ForwardRequestTerminates ==
    /\ [](\A r \in Reqs : (pc[r] = "done" /\ Forwarded(r)) => EndedAsAllowed(r))
    /\ \A r \in Reqs : InForward(r) ~> (pc[r] = "done" /\ Forwarded(r))

C21_Witness ==
    \E r \in Reqs :
        /\ pc[r] = "done" /\ Forwarded(r)
        /\ max_retries = 3 /\ Len(tries[r]) = 3
        /\ \A i \in 1..3 : tries[r][i].got = "timeout"
        /\ response[r].type = "gateway_error"

\* C22: the attempts of one request are strictly sequential: a call is in
\* flight only while forward_request awaits it, the outcomes of all earlier
\* calls are known by then, and between two calls none is in flight.
C22_AttemptsAreSequential ==
    \A r \in Reqs :
        Forwarded(r) =>
            /\ flight[r] # NoCall <=> pc[r] = "flight"
            /\ pc[r] = "flight" =>
                   /\ Len(tries[r]) = attempt[r]
                   /\ Attempts(r) = attempt[r] + 1
            /\ pc[r] = "loop" => Len(tries[r]) = attempt[r]

C22_Witness ==
    \E r \in Reqs :
        /\ Forwarded(r) /\ pc[r] = "flight"
        /\ attempt[r] = 1 /\ Len(tries[r]) = 1
        /\ tries[r][1].got = "connect"

\* C23: when the calls of a request fail in different ways, the error raised
\* after the last call is that of the last failure alone: timeout -> 504,
\* connection error -> 503, any other exception -> 500 "Gateway error
\* occurred".
C23_LastFailureClassifies ==
    \A r \in Reqs :
        (/\ pc[r] = "done" /\ Forwarded(r) /\ tries[r] # << >>
         /\ response[r].type = "gateway_error") =>
            LET last == tries[r][Len(tries[r])].got IN
            /\ last = "timeout" =>
                   /\ response[r].status = 504
                   /\ response[r].message = "Service timeout: " \o service_url[r]
            /\ last = "connect" =>
                   /\ response[r].status = 503
                   /\ response[r].message =
                          "Service unavailable: " \o service_url[r]
            /\ last \notin {"timeout", "connect"} =>
                   /\ response[r].status = 500
                   /\ response[r].message = "Gateway error occurred"

C23_Witness ==
    \E r \in Reqs :
        /\ pc[r] = "done" /\ Forwarded(r) /\ Len(tries[r]) = 2
        /\ tries[r][1].got = "timeout" /\ tries[r][2].got = "connect"
        /\ response[r].status = 503

(***************************************************************************)
(* The request body.                                                       *)
(***************************************************************************)
\* the read of the body of r failed: the request has content, and the
\* local body is the empty one that was put in its place
BodyReadFailed(r) ==
    /\ Forwarded(r) /\ pc[r] # "body"
    /\ request[r].content # "" /\ body[r] = ""

C25_EveryUpstreamCheckedOnce ==
    \A r \in Reqs :
        IsHealth(r) =>
            /\ Len(tries[r]) <= Len(service_routes)
            /\ flight[r] # NoCall <=> pc[r] = "hflight"
            /\ \A i \in 1..Len(tries[r]) :
                   /\ tries[r][i].sent = health_request(service_routes[i].url)
                   /\ tries[r][i].got # "closed"
            /\ pc[r] = "done" => Len(tries[r]) = Len(service_routes)

(***************************************************************************)
(* The logging middleware.                                                 *)
(***************************************************************************)
\* C26 as stated: for a request to a path other than /health and /ping the
\* middleware logs one entry line before the handler runs and one exit line
\* after it, in that order, whatever the outcome; for /health and /ping it
\* logs nothing.
C26_OneEntryOneExitLine ==
    /\ http_request.path \in unlogged_paths => log = << >>
    /\ http_request.path \notin unlogged_paths =>
           /\ middleware_pc \in {"call_next", "returned"} =>
                  log = << entry_line(http_request) >>
           /\ middleware_pc \in {"done", "raised"} =>
                  /\ Len(log) = 2
                  /\ log[1].line = "entry"
                  /\ log[2].line = "exit"

(***************************************************************************)
(* The connection pool.                                                    *)
(***************************************************************************)
\* C27 as stated: at most connection_pool_limits outbound calls hold a
\* connection at any time, and a call that finds the pool exhausted waits
\* and then proceeds: it is never failed because the pool was full.
C27_PoolBlocksNeverFails ==
    /\ InUse <= connection_pool_limits
    /\ \A c \in Calls : connection[c] # "pool_timeout"

(***************************************************************************)
(* The notification buffers.                                               *)
(***************************************************************************)
\* a record was added to the list, which was at its cap: the oldest record
\* has gone and the others are kept in order
EvictsOldest(list, list_after, cap) ==
    (Len(list) >= cap /\ list_after # list /\ list_after # << >>) =>
        /\ Len(list_after) = Len(list)
        /\ SubSeq(list_after, 1, Len(list) - 1) = Tail(list)

\* C28 as stated: neither buffer ever holds more records than its cap, and
\* a record added at capacity evicts the oldest one.
C28_BuffersStayWithinCap ==
    /\ [](/\ Len(processed_notifications) <= WebhookCap
          /\ Len(manager_notifications) <= ManagerCap)
    /\ [][/\ EvictsOldest(processed_notifications,
                          processed_notifications', WebhookCap)
          /\ EvictsOldest(manager_notifications,
                          manager_notifications', ManagerCap)]_vars

\* the ids of the records of a list are pairwise distinct
DistinctIds(list) ==
    \A i, j \in 1..Len(list) : list[i].id = list[j].id => i = j

\* C30 as stated: the records held in a buffer have pairwise distinct ids.
C30_IdsAreDistinct ==
    /\ DistinctIds(processed_notifications)
    /\ DistinctIds(manager_notifications)

(***************************************************************************)
(* The outbound request.                                                   *)
(***************************************************************************)
\* C29: every call of a request is made with the same method, URL, headers
\* and content as its first call: the locals of forward_request they are
\* taken from do not change in the loop; and the headers of the inbound
\* request are as the client sent them (prepare_headers works on a copy).
C29_SameOutboundRequestEveryAttempt ==
    \A r \in Reqs :
        Forwarded(r) =>
            /\ request[r].headers = RequestHeaders
            /\ request[r].client = RequestClient
            /\ fwd_headers[r] \notin {Unset, request[r].headers}
            /\ \A i \in 1..Len(tries[r]) :
                   /\ tries[r][i].sent = tries[r][1].sent
                   /\ tries[r][i].sent.method = request[r].method
                   /\ tries[r][i].sent.url = url[r]
                   /\ tries[r][i].sent.headers = fwd_headers[r]
                   /\ tries[r][i].sent.content = body[r]

C29_Witness ==
    \E r \in Reqs :
        /\ Forwarded(r) /\ Len(tries[r]) = 3
        /\ tries[r][3].got = "timeout"
        /\ tries[r][3].sent.content = "cred"
        /\ tries[r][3].sent.method = "POST"
        /\ tries[r][3].sent.url = "http://auth_service:8000/login"
        /\ tries[r][3].sent = tries[r][1].sent

====
